---- MODULE Spec2Model ----
(***************************************************************************)
(* Multi-venue limit-order-book simulator: the exchanges (ExchangeAgent),  *)
(* the traders' order primitives (Trader), the strategies of the traders,  *)
(* the StopTrading event and the export of the events (make_event_df), as  *)
(* a state machine.                                                        *)
(*                                                                         *)
(* Units.  A price is an integer number of tenths (the code rounds every   *)
(* price to one decimal).  A transaction cost is an integer number of      *)
(* tenths too, so a fill of t units at price p moves t*p*(10 +/- tc)       *)
(* units of cash, one unit being 1/100 of the currency.  A dividend is an   *)
(* integer number of halves of rf tenths, rf being the risk-free rate, so  *)
(* that a dividend d is worth d/2 tenths when it is paid for ever.         *)
(***************************************************************************)
EXTENDS Integers, Sequences, FiniteSets, TLC

VARIABLES
    order_book,       \* ExchangeAgent.order_book: the bid and ask OrderList of each exchange
    trading_stopped,  \* ExchangeAgent.trading_stopped, "unset" until an event assigns it
    cash,             \* Trader.cash
    assets,           \* Trader.assets, by position in the trader's markets
    orders,           \* Trader.orders
    next_id,          \* identity of the next Order object
    dividend_book,    \* ExchangeAgent.dividend_book: the queue of future dividends
    type,             \* Universalist.type
    sentiment,        \* Universalist.sentiment
    held,             \* the sentiment the Universalist had when it was last a Chartist
    info,             \* SimulatorInfo: the regime label of each window
    event_df,         \* the rows make_event_df returned, one for each event
    nops,             \* operations done so far
    pre,              \* the state before the last operation
    last              \* the last operation: its arguments, fills and result

vars == <<order_book, trading_stopped, cash, assets, orders, next_id, dividend_book,
          type, sentiment, held, info, event_df, nops, pre, last>>

(***************************************************************************)
(* Bounds of the model.                                                    *)
(***************************************************************************)
\* largest price (in tenths) an order is drawn with
MaxPrice == 3
\* largest quantity a trader's order is drawn with
MaxQty == 2
\* operations of one run
MaxOps == 2
\* largest dividend a generate_dividend call is followed to
MaxDividend == 8

(***************************************************************************)
(* The configuration: two exchanges, one plain trader and one MarketMaker, *)
(* both trading on both exchanges.                                         *)
(***************************************************************************)
Exchanges == {0, 1}
Traders == {"T", "M"}
Sides == {"bid", "ask"}

\* ExchangeAgent(price=...): the centre price of each book
price0 == [e \in Exchanges |-> 1]
\* ExchangeAgent(volume=...)
volume == [e \in Exchanges |-> IF e = 0 THEN 3 ELSE 2]
\* ExchangeAgent(transaction_cost=...), in tenths
transaction_cost == [e \in Exchanges |-> IF e = 0 THEN 1 ELSE 0]
\* Trader(markets=...): position in the trader's list |-> exchange
markets == [a \in Traders |-> [i \in {0, 1} |-> i]]
\* MarketMaker(softlimits=...)
softlimits == [i \in {0, 1} |-> IF i = 0 THEN 3 ELSE 1]
\* sorted price draws of the book initialisation, per exchange
InitDraws == [e \in Exchanges |->
    IF e = 0 THEN {<<0, 0>>, <<0, 3>>, <<1, 3>>, <<2, 3>>, <<3, 3>>} ELSE {<<1, 1>>, <<1, 2>>, <<2, 2>>}]
\* quantities the book initialisation draws, per exchange
InitQtys == [e \in Exchanges |-> IF e = 0 THEN {1, 2} ELSE {1}]

\* range(100) of the dividend loop of _fill_book
DividendBookLen == 100
\* _fill_book(..., div = rf * price): the first dividend, per exchange
InitDivs == {-2, 0, 2, 4}
\* draws of _next_dividend, in halves: 1/2, 1 and 2
DivFactors == {1, 2, 4}
\* the draws of the dividend loop of _fill_book: all 1, or 2 and 1/2 in turn, or 4, 1/2
\* and 1/2 in turn
DivDraws == {[i \in 1..DividendBookLen |-> 2],
             [i \in 1..DividendBookLen |-> IF i % 2 = 1 THEN 4 ELSE 1],
             [i \in 1..DividendBookLen |-> IF i % 3 = 1 THEN 8 ELSE 1]}

Prices == 0..MaxPrice
Qtys == 0..MaxQty

Min(a, b) == IF a < b THEN a ELSE b
Max(a, b) == IF a > b THEN a ELSE b

(***************************************************************************)
(* Order and OrderList.                                                    *)
(***************************************************************************)
Order(id, p, q, order_type, market_id, trader) ==
    [order_id |-> id, price |-> p, qty |-> q, order_type |-> order_type,
     market_id |-> market_id, trader |-> trader]

\* handle a trader keeps in its orders list
Handle(o) == [order_id |-> o.order_id, order_type |-> o.order_type, market_id |-> o.market_id]

OrderList_push(lst, o) == <<o>> \o lst

OrderList_append(lst, o) == Append(lst, o)

OrderList_first(lst) == lst[1]

OrderList_last(lst) == lst[Len(lst)]

OrderList_bool(lst) == lst /= <<>>

OrderList_remove(lst, id) == SelectSeq(lst, LAMBDA r : r.order_id /= id)

\* o goes behind every resting order that is at least as good as o
Precedes(r, o) ==
    IF o.order_type = "bid" THEN r.price >= o.price ELSE r.price <= o.price

OrderList_insert(lst, o) ==
    LET k == Cardinality({i \in 1..Len(lst) : Precedes(lst[i], o)})
    IN  SubSeq(lst, 1, k) \o <<o>> \o SubSeq(lst, k + 1, Len(lst))

SeqRemoveId(s, id) == SelectSeq(s, LAMBDA h : h.order_id /= id)

PriceCompatible(incoming, r) ==
    IF incoming.order_type = "bid" THEN incoming.price >= r.price
    ELSE incoming.price <= r.price

\* the buyer's side of a fill of t at p: skipped for a book-initialisation order
SettleBuy(w, o, t, p, t_cost) ==
    IF o.trader = "None" THEN w
    ELSE [w EXCEPT !.cash[o.trader] = @ - t * p * (10 + t_cost),
                   !.assets[o.trader][o.market_id] = @ + t]

SettleSell(w, o, t, p, t_cost) ==
    IF o.trader = "None" THEN w
    ELSE [w EXCEPT !.cash[o.trader] = @ + t * p * (10 - t_cost),
                   !.assets[o.trader][o.market_id] = @ - t]

RECURSIVE OrderList_fulfill(_, _, _, _, _)
OrderList_fulfill(w, e, side, order, t_cost) ==
    LET lst == w.order_book[e][side] IN
    IF order.qty = 0 \/ lst = <<>> THEN [w |-> w, order |-> order]
    ELSE
      LET r == Head(lst) IN
      IF ~PriceCompatible(order, r) THEN [w |-> w, order |-> order]
      ELSE
        LET t  == Min(order.qty, r.qty)
            w1 == IF order.order_type = "bid"
                  THEN SettleSell(SettleBuy(w, order, t, r.price, t_cost), r, t, r.price, t_cost)
                  ELSE SettleBuy(SettleSell(w, order, t, r.price, t_cost), r, t, r.price, t_cost)
            r2 == [r EXCEPT !.qty = @ - t]
            o2 == [order EXCEPT !.qty = @ - t]
            tr == [buyer  |-> IF order.order_type = "bid" THEN order.trader ELSE r.trader,
                   seller |-> IF order.order_type = "bid" THEN r.trader ELSE order.trader,
                   qty |-> t, price |-> r.price, exchange |-> e, side |-> side,
                   resting |-> r.order_id, incoming |-> order.order_id]
            w2 == IF r2.qty = 0
                  THEN [w1 EXCEPT !.order_book[e][side] = Tail(lst),
                                  !.orders = [a \in Traders |->
                                      IF a = r.trader THEN SeqRemoveId(@[a], r.order_id) ELSE @[a]],
                                  !.trades = Append(@, tr)]
                  ELSE [w1 EXCEPT !.order_book[e][side] = <<r2>> \o Tail(lst),
                                  !.trades = Append(@, tr)]
        IN  OrderList_fulfill(w2, e, side, o2, t_cost)

(***************************************************************************)
(* ExchangeAgent.                                                          *)
(***************************************************************************)
\* the state an operation works on; sent is the limit orders handed to limit_order so far
World == [order_book |-> order_book, cash |-> cash, assets |-> assets,
          orders |-> orders, next_id |-> next_id, raised |-> FALSE, trades |-> <<>>,
          sent |-> <<>>]

\* spread() raises when a side is empty
spread_raises(w, e) ==
    ~(OrderList_bool(w.order_book[e]["bid"]) /\ OrderList_bool(w.order_book[e]["ask"]))

spread(w, e) == [bid |-> OrderList_first(w.order_book[e]["bid"]).price,
                 ask |-> OrderList_first(w.order_book[e]["ask"]).price]

\* price(): the mean of the best prices rounded to one decimal; up is the way the
\* floating-point rounding goes when the mean is half-way between two tenths
price(w, e, up) ==
    LET sp == spread(w, e)
    IN  IF (sp.bid + sp.ask) % 2 = 0 THEN (sp.bid + sp.ask) \div 2
        ELSE ((sp.bid + sp.ask) \div 2) + (IF up THEN 1 ELSE 0)

\* limit_order matching only an order priced strictly through the best opposite price
limit_order_strict(w, e, order) ==
    IF spread_raises(w, e) THEN [w EXCEPT !.raised = TRUE]
    ELSE
      LET bid == spread(w, e).bid
          ask == spread(w, e).ask
          t_cost == transaction_cost[e]
      IN
      IF bid = 0 \/ ask = 0 THEN w
      ELSE IF order.order_type = "bid" THEN
        LET f == IF order.price > ask
                 THEN OrderList_fulfill(w, e, "ask", order, t_cost)
                 ELSE [w |-> w, order |-> order]
        IN  IF f.order.qty > 0
            THEN [f.w EXCEPT !.order_book[e]["bid"] = OrderList_insert(@, f.order)]
            ELSE f.w
      ELSE
        LET f == IF order.price < bid
                 THEN OrderList_fulfill(w, e, "bid", order, t_cost)
                 ELSE [w |-> w, order |-> order]
        IN  IF f.order.qty > 0
            THEN [f.w EXCEPT !.order_book[e]["ask"] = OrderList_insert(@, f.order)]
            ELSE f.w

\* limit_order resting whatever is left of an order, nothing included
limit_order_keepzero(w, e, order) ==
    IF spread_raises(w, e) THEN [w EXCEPT !.raised = TRUE]
    ELSE
      LET bid == spread(w, e).bid
          ask == spread(w, e).ask
          t_cost == transaction_cost[e]
      IN
      IF bid = 0 \/ ask = 0 THEN w
      ELSE IF order.order_type = "bid" THEN
        LET f == IF order.price >= ask
                 THEN OrderList_fulfill(w, e, "ask", order, t_cost)
                 ELSE [w |-> w, order |-> order]
        IN  IF f.order.qty >= 0
            THEN [f.w EXCEPT !.order_book[e]["bid"] = OrderList_insert(@, f.order)]
            ELSE f.w
      ELSE
        LET f == IF order.price <= bid
                 THEN OrderList_fulfill(w, e, "bid", order, t_cost)
                 ELSE [w |-> w, order |-> order]
        IN  IF f.order.qty >= 0
            THEN [f.w EXCEPT !.order_book[e]["ask"] = OrderList_insert(@, f.order)]
            ELSE f.w

\* limit_order handing fulfill no transaction cost
limit_order_free(w, e, order) ==
    IF spread_raises(w, e) THEN [w EXCEPT !.raised = TRUE]
    ELSE
      LET bid == spread(w, e).bid
          ask == spread(w, e).ask
          t_cost == 0
      IN
      IF bid = 0 \/ ask = 0 THEN w
      ELSE IF order.order_type = "bid" THEN
        LET f == IF order.price >= ask
                 THEN OrderList_fulfill(w, e, "ask", order, t_cost)
                 ELSE [w |-> w, order |-> order]
        IN  IF f.order.qty > 0
            THEN [f.w EXCEPT !.order_book[e]["bid"] = OrderList_insert(@, f.order)]
            ELSE f.w
      ELSE
        LET f == IF order.price <= bid
                 THEN OrderList_fulfill(w, e, "bid", order, t_cost)
                 ELSE [w |-> w, order |-> order]
        IN  IF f.order.qty > 0
            THEN [f.w EXCEPT !.order_book[e]["ask"] = OrderList_insert(@, f.order)]
            ELSE f.w

limit_order(w, e, order) ==
    IF spread_raises(w, e) THEN [w EXCEPT !.raised = TRUE]
    ELSE
      LET bid == spread(w, e).bid
          ask == spread(w, e).ask
          t_cost == transaction_cost[e]
      IN
      IF bid = 0 \/ ask = 0 THEN w
      ELSE IF order.order_type = "bid" THEN
        LET f == IF order.price >= ask
                 THEN OrderList_fulfill(w, e, "ask", order, t_cost)
                 ELSE [w |-> w, order |-> order]
        IN  IF f.order.qty > 0
            THEN [f.w EXCEPT !.order_book[e]["bid"] = OrderList_insert(@, f.order)]
            ELSE f.w
      ELSE
        LET f == IF order.price <= bid
                 THEN OrderList_fulfill(w, e, "bid", order, t_cost)
                 ELSE [w |-> w, order |-> order]
        IN  IF f.order.qty > 0
            THEN [f.w EXCEPT !.order_book[e]["ask"] = OrderList_insert(@, f.order)]
            ELSE f.w

\* market_order charging no transaction cost
market_order_free(w, e, order) ==
    LET t_cost == 0 IN
    IF order.order_type = "bid"
    THEN OrderList_fulfill(w, e, "ask", order, t_cost)
    ELSE OrderList_fulfill(w, e, "bid", order, t_cost)

market_order(w, e, order) ==
    LET t_cost == transaction_cost[e] IN
    IF order.order_type = "bid"
    THEN OrderList_fulfill(w, e, "ask", order, t_cost)
    ELSE OrderList_fulfill(w, e, "bid", order, t_cost)

\* cancel_order that looks for the order among the bids only
cancel_order_bidonly(w, e, h) ==
    [w EXCEPT !.order_book[e]["bid"] = OrderList_remove(@, h.order_id)]

cancel_order(w, e, h) ==
    IF h.order_type = "bid"
    THEN [w EXCEPT !.order_book[e]["bid"] = OrderList_remove(@, h.order_id)]
    ELSE [w EXCEPT !.order_book[e]["ask"] = OrderList_remove(@, h.order_id)]

\* _fill_book pushing no bid onto the head of the list: every order is appended
RECURSIVE fill_book_appendbids(_, _, _, _, _)
fill_book_appendbids(e, ps, qs, id, book) ==
    IF ps = <<>> \/ qs = <<>> THEN book
    ELSE LET p == Head(ps)
             q == Head(qs)
         IN  IF p > price0[e]
             THEN fill_book_appendbids(e, Tail(ps), Tail(qs), id + 1,
                     [book EXCEPT !.ask = OrderList_append(@, Order(id, p, q, "ask", e, "None"))])
             ELSE fill_book_appendbids(e, Tail(ps), Tail(qs), id + 1,
                     [book EXCEPT !.bid = OrderList_append(@, Order(id, p, q, "bid", e, "None"))])

\* _fill_book: the sorted prices are zipped with the quantities; a price above
\* the centre is appended to the asks, any other is pushed onto the bids
RECURSIVE fill_book(_, _, _, _, _)
fill_book(e, ps, qs, id, book) ==
    IF ps = <<>> \/ qs = <<>> THEN book
    ELSE LET p == Head(ps)
             q == Head(qs)
         IN  IF p > price0[e]
             THEN fill_book(e, Tail(ps), Tail(qs), id + 1,
                     [book EXCEPT !.ask = OrderList_append(@, Order(id, p, q, "ask", e, "None"))])
             ELSE fill_book(e, Tail(ps), Tail(qs), id + 1,
                     [book EXCEPT !.bid = OrderList_push(@, Order(id, p, q, "bid", e, "None"))])

\* _fill_book, the dividend book: each turn appends max(div, 0) and multiplies div by a draw
\* (the turns for the draws fs are done as those of the first half of fs, then the others)
RECURSIVE fill_dividends(_, _)
fill_dividends(div, fs) ==
    IF fs = <<>> THEN [book |-> <<>>, div |-> div]
    ELSE IF Len(fs) = 1 THEN [book |-> <<Max(div, 0)>>, div |-> (div * fs[1]) \div 2]
    ELSE LET h == Len(fs) \div 2
             l == fill_dividends(div, SubSeq(fs, 1, h))
             r == fill_dividends(l.div, SubSeq(fs, h + 1, Len(fs)))
         IN  [book |-> l.book \o r.book, div |-> r.div]

\* generate_dividend that appends and does not pop
generate_dividend_nopop(book, f) ==
    LET d == (book[Len(book)] * f) \div 2
    IN  Append(book, Max(d, 0))

\* generate_dividend that drops the entry at the tail, not the one at the head
generate_dividend_poplast(book, f) ==
    LET d == (book[Len(book)] * f) \div 2
    IN  Append(SubSeq(book, 1, Len(book) - 1), Max(d, 0))

\* generate_dividend: f is the draw of _next_dividend, in halves
generate_dividend(book, f) ==
    LET d == (book[Len(book)] * f) \div 2
    IN  Tail(Append(book, Max(d, 0)))

\* dividend(access) with access None: the current dividend
NoAccess == -1
\* dividend(access): the first access entries of the queue
dividend(book, access) ==
    IF access = NoAccess THEN book[1] ELSE SubSeq(book, 1, access)

(***************************************************************************)
(* Trader.                                                                 *)
(***************************************************************************)
NoMarket == -1
\* the market index the strategies pass to the limit primitives
FirstMarket == 0
NoReturn == NoMarket
Indices(a) == DOMAIN markets[a]

\* p is the price after round(price, 1), quantity the quantity after round(quantity)
_buy_limit(w, a, quantity, p, market_id) ==
    LET order == Order(w.next_id, p, quantity, "bid", market_id, a)
        w1 == [w EXCEPT !.orders[a] = Append(@, Handle(order)), !.next_id = @ + 1,
                        !.sent = Append(@, order)]
    IN  limit_order(w1, markets[a][market_id], order)

_sell_limit(w, a, quantity, p, market_id) ==
    LET order == Order(w.next_id, p, quantity, "ask", market_id, a)
        w1 == [w EXCEPT !.orders[a] = Append(@, Handle(order)), !.next_id = @ + 1,
                        !.sent = Append(@, order)]
    IN  limit_order(w1, markets[a][market_id], order)

\* the index loop of _buy_market / _sell_market: i runs over range(len(markets))
RECURSIVE best_index(_, _, _, _, _)
best_index(w, a, side, i, idx) ==
    IF i \notin Indices(a) THEN idx
    ELSE
      LET li == w.order_book[markets[a][i]][side]
          lx == w.order_book[markets[a][idx]][side]
          better == /\ OrderList_bool(li)
                    /\ OrderList_bool(lx)
                    /\ IF side = "ask"
                       THEN OrderList_last(li).price < OrderList_last(lx).price
                       ELSE OrderList_last(li).price > OrderList_last(lx).price
      IN  best_index(w, a, side, i + 1, IF better THEN i ELSE idx)

\* the market primitive pricing its order at the best, not the last, resting price
market_primitive_first(w, a, quantity, market, side) ==
    IF \A i \in Indices(a) : ~OrderList_bool(w.order_book[markets[a][i]][side])
    THEN [w |-> w, ret |-> quantity, index |-> NoMarket]
    ELSE
      LET found == best_index(w, a, side, 0, 0)
          index == IF market /= NoMarket THEN market ELSE found
          e     == markets[a][index]
          lst   == w.order_book[e][side]
      IN  IF ~OrderList_bool(lst)
          THEN [w |-> [w EXCEPT !.raised = TRUE], ret |-> NoReturn, index |-> index]
          ELSE
            LET order == Order(w.next_id, OrderList_first(lst).price, quantity,
                               IF side = "ask" THEN "bid" ELSE "ask", index, a)
                f == market_order([w EXCEPT !.next_id = @ + 1], e, order)
            IN  [w |-> f.w, ret |-> f.order.qty, index |-> index]

\* the market primitive keeping its order in the trader's list as the limit primitives do
market_primitive_listed(w, a, quantity, market, side) ==
    IF \A i \in Indices(a) : ~OrderList_bool(w.order_book[markets[a][i]][side])
    THEN [w |-> w, ret |-> quantity, index |-> NoMarket]
    ELSE
      LET found == best_index(w, a, side, 0, 0)
          index == IF market /= NoMarket THEN market ELSE found
          e     == markets[a][index]
          lst   == w.order_book[e][side]
      IN  IF ~OrderList_bool(lst)
          THEN [w |-> [w EXCEPT !.raised = TRUE], ret |-> NoReturn, index |-> index]
          ELSE
            LET order == Order(w.next_id, OrderList_last(lst).price, quantity,
                               IF side = "ask" THEN "bid" ELSE "ask", index, a)
                f == market_order([w EXCEPT !.next_id = @ + 1,
                                             !.orders[a] = Append(@, Handle(order))], e, order)
            IN  [w |-> f.w, ret |-> f.order.qty, index |-> index]

\* the market primitive leaving what is not filled of its order in the book
market_primitive_rests(w, a, quantity, market, side) ==
    IF \A i \in Indices(a) : ~OrderList_bool(w.order_book[markets[a][i]][side])
    THEN [w |-> w, ret |-> quantity, index |-> NoMarket]
    ELSE
      LET found == best_index(w, a, side, 0, 0)
          index == IF market /= NoMarket THEN market ELSE found
          e     == markets[a][index]
          lst   == w.order_book[e][side]
      IN  IF ~OrderList_bool(lst)
          THEN [w |-> [w EXCEPT !.raised = TRUE], ret |-> NoReturn, index |-> index]
          ELSE
            LET order == Order(w.next_id, OrderList_last(lst).price, quantity,
                               IF side = "ask" THEN "bid" ELSE "ask", index, a)
                f == market_order([w EXCEPT !.next_id = @ + 1], e, order)
                w2 == IF f.order.qty > 0
                      THEN [f.w EXCEPT !.order_book[e][order.order_type] = OrderList_insert(@, f.order)]
                      ELSE f.w
            IN  [w |-> w2, ret |-> f.order.qty, index |-> index]

\* side is the side of the book the order is matched against
market_primitive(w, a, quantity, market, side) ==
    IF \A i \in Indices(a) : ~OrderList_bool(w.order_book[markets[a][i]][side])
    THEN [w |-> w, ret |-> quantity, index |-> NoMarket]
    ELSE
      LET found == best_index(w, a, side, 0, 0)
          index == IF market /= NoMarket THEN market ELSE found
          e     == markets[a][index]
          lst   == w.order_book[e][side]
      IN  IF ~OrderList_bool(lst)
          THEN [w |-> [w EXCEPT !.raised = TRUE], ret |-> NoReturn, index |-> index]
          ELSE
            LET order == Order(w.next_id, OrderList_last(lst).price, quantity,
                               IF side = "ask" THEN "bid" ELSE "ask", index, a)
                f == market_order([w EXCEPT !.next_id = @ + 1], e, order)
            IN  [w |-> f.w, ret |-> f.order.qty, index |-> index]

_buy_market(w, a, quantity, market) == market_primitive(w, a, quantity, market, "ask")

_sell_market(w, a, quantity, market) == market_primitive(w, a, quantity, market, "bid")

\* equity(): price() is called for every venue, and raises when a side of its book is empty
equity(w, a, up) ==
    IF \E i \in Indices(a) : spread_raises(w, markets[a][i])
    THEN [raised |-> TRUE, ret |-> NoReturn]
    ELSE LET worth[i \in Indices(a) \cup {-1}] ==
                 IF i = -1 THEN 0
                 ELSE worth[i - 1] + w.assets[a][i] * price(w, markets[a][i], up) * 10
         IN  [raised |-> FALSE, ret |-> w.cash[a] + worth[Cardinality(Indices(a)) - 1]]

_cancel_order(w, a, h) ==
    LET w1 == cancel_order(w, markets[a][h.market_id], h)
    IN  [w1 EXCEPT !.orders[a] = SeqRemoveId(@, h.order_id)]

(***************************************************************************)
(* MarketMaker.                                                            *)
(***************************************************************************)
\* round() of n/d for d > 0: the nearest integer, a tie going to the even one
RoundHalfEven(n, d) ==
    LET f == n \div d
        r == n % d
    IN  IF 2 * r < d THEN f
        ELSE IF 2 * r > d THEN f + 1
        ELSE IF f % 2 = 0 THEN f ELSE f + 1

\* for order in self.orders.copy(): self._cancel_order(order)
RECURSIVE cancel_all(_, _, _)
cancel_all(w, a, copy) ==
    IF copy = <<>> THEN w
    ELSE cancel_all(_cancel_order(w, a, Head(copy)), a, Tail(copy))

\* bid_volume adding the inventory to the room left, not taking it off
bid_volume_plus(w, a, i) == Max(0, (softlimits[i] - 1 + w.assets[a][i]) \div 2)

bid_volume(w, a, i) == Max(0, (softlimits[i] - 1 - w.assets[a][i]) \div 2)

ask_volume(w, a, i) == Max(0, (w.assets[a][i] - 1 - (-softlimits[i])) \div 2)

\* base_offset without the cap of 1
base_offset_nocap(w, a, i) ==
    LET sp == spread(w, markets[a][i])
    IN  -((sp.ask - sp.bid) * w.assets[a][i])

\* 10 * softlimits[i] * base_offset: min(1, (ask - bid) * (assets[i] / lls[i]))
base_offset(w, a, i) ==
    LET sp == spread(w, markets[a][i])
    IN  Min(10 * softlimits[i], -((sp.ask - sp.bid) * w.assets[a][i]))

\* one turn of the loop over the venues
quote(w, a, i) ==
    IF spread_raises(w, markets[a][i]) THEN [w EXCEPT !.raised = TRUE]
    ELSE
      LET sp == spread(w, markets[a][i])
          s  == softlimits[i]
          off == base_offset(w, a, i)
          bid_price == RoundHalfEven(sp.bid * s + off, s)
          ask_price == RoundHalfEven(sp.ask * s - off, s)
          bv == bid_volume(w, a, i)
          av == ask_volume(w, a, i)
          w1 == _buy_limit(w, a, bv, bid_price, i)
      IN  IF w1.raised THEN w1 ELSE _sell_limit(w1, a, av, ask_price, i)

RECURSIVE quote_loop(_, _, _)
quote_loop(w, a, i) ==
    IF i \notin Indices(a) \/ w.raised THEN w
    ELSE quote_loop(quote(w, a, i), a, i + 1)

\* MarketMaker.call that does not cancel the orders of the calls before
MarketMaker_call_nocancel(w, a) == quote_loop(w, a, 0)

MarketMaker_call(w, a) == quote_loop(cancel_all(w, a, w.orders[a]), a, 0)

(***************************************************************************)
(* Fundamentalist.                                                         *)
(***************************************************************************)
\* draws of Random.draw_delta, in tenths
Deltas == {0, 1}

\* round(evaluate(dividend(access), risk_free), 1) with access = 1: the current dividend
\* paid for ever, in tenths
fundamental(book) == RoundHalfEven(book[1], 2)

\* draw_quantity(pf, p) with gamma = 5e-3, for p /= 0
draw_quantity(pf, p) ==
    LET n == 200 * (IF pf >= p THEN pf - p ELSE p - pf)
        q == IF p > 0 THEN RoundHalfEven(n, p) ELSE 0 - RoundHalfEven(n, 0 - p)
    IN  Min(q, 5)

\* Fundamentalist.call: divs is the dividend book of the first market, trade and high are
\* the outcomes of random_state > .45 and random_state > .5, delta the draw of draw_delta;
\* act is what the call did, qty the quantity it drew
Fundamentalist_call(w, a, divs, up, trade, high, delta) ==
    LET e == markets[a][0] IN
    IF spread_raises(w, e) THEN [w |-> [w EXCEPT !.raised = TRUE], act |-> "none", qty |-> 0]
    ELSE
      LET pf == fundamental(divs)
          p  == price(w, e, up)
          sp == spread(w, e)
          t_cost == transaction_cost[e]
      IN
      IF p = 0 THEN [w |-> [w EXCEPT !.raised = TRUE], act |-> "none", qty |-> 0]
      ELSE
        LET qty   == draw_quantity(pf, p)
            ask_t == RoundHalfEven(sp.ask * (10 + t_cost), 10)
            bid_t == RoundHalfEven(sp.bid * (10 - t_cost), 10)
            above == RoundHalfEven((pf + delta) * (10 + t_cost), 10)
            below == RoundHalfEven((pf - delta) * (10 - t_cost), 10)
            none        == [w |-> w, act |-> "none", qty |-> qty]
            buy_market  == [none EXCEPT !.w = _buy_market(w, a, qty, NoMarket).w, !.act = "buy_market"]
            sell_market == [none EXCEPT !.w = _sell_market(w, a, qty, NoMarket).w, !.act = "sell_market"]
            buy_limit   == [none EXCEPT !.w = _buy_limit(w, a, qty, below, 0), !.act = "buy_limit"]
            sell_limit  == [none EXCEPT !.w = _sell_limit(w, a, qty, above, 0), !.act = "sell_limit"]
        IN
        IF qty = 0 THEN none
        ELSE IF trade THEN
          IF pf >= ask_t THEN (IF high THEN buy_market ELSE sell_limit)
          ELSE IF pf <= bid_t THEN (IF high THEN sell_market ELSE buy_limit)
          ELSE IF ask_t > pf /\ pf > bid_t THEN (IF high THEN buy_limit ELSE sell_limit)
          ELSE none
        ELSE IF w.orders[a] /= <<>>
          THEN [none EXCEPT !.w = _cancel_order(w, a, w.orders[a][1]), !.act = "cancel"]
          ELSE none

(***************************************************************************)
(* Chartist and Universalist.                                              *)
(***************************************************************************)
Types == {"Chartist", "Fundamentalist"}
Sentiments == {"Optimistic", "Pessimistic"}

\* Random.draw_price: inside the spread (x = 0 or 1 of the way from the bid to the ask), or
\* x tenths beyond the best price of the order's side
draw_price(order_type, sp, inside, x) ==
    IF inside THEN sp.bid + x * (sp.ask - sp.bid)
    ELSE IF order_type = "bid" THEN sp.bid - x ELSE sp.ask + x

\* the index loops of Chartist.call: the first venue of the lowest (highest) price
RECURSIVE priced_index(_, _, _, _, _, _)
priced_index(w, a, up, lowest, i, idx) ==
    IF i \notin Indices(a) THEN idx
    ELSE LET pi == price(w, markets[a][i], up)
             px == price(w, markets[a][idx], up)
         IN  priced_index(w, a, up, lowest, i + 1,
                          IF (lowest /\ pi < px) \/ (~lowest /\ pi > px) THEN i ELSE idx)

\* Chartist.call: kind is the bucket of random_state, q the draw of draw_quantity, inside
\* and x the draws of draw_price
Chartist_call(w, a, se, up, kind, q, inside, x) ==
    IF \E i \in Indices(a) : spread_raises(w, markets[a][i]) THEN [w EXCEPT !.raised = TRUE]
    ELSE
      LET idx == priced_index(w, a, up, se = "Optimistic", 0, 0)
          t_cost == transaction_cost[markets[a][idx]]
          sp == spread(w, markets[a][idx])
      IN
      IF kind = "market" THEN
        IF se = "Optimistic" THEN _buy_market(w, a, q, NoMarket).w
        ELSE _sell_market(w, a, q, NoMarket).w
      ELSE IF kind = "limit" THEN
        IF se = "Optimistic"
        THEN _buy_limit(w, a, q, RoundHalfEven(draw_price("bid", sp, inside, x) * (10 - t_cost), 10), idx)
        ELSE _sell_limit(w, a, q, RoundHalfEven(draw_price("ask", sp, inside, x) * (10 + t_cost), 10), idx)
      ELSE IF kind = "cancel" /\ w.orders[a] /= <<>>
        THEN _cancel_order(w, a, w.orders[a][Len(w.orders[a])])
      ELSE w

\* Chartist.change_sentiment: flip is the outcome of prob > random.random()
change_sentiment(se, flip) ==
    IF ~flip THEN se
    ELSE IF se = "Optimistic" THEN "Pessimistic" ELSE "Optimistic"

\* Universalist.change_strategy: fire1 and fire2 are the outcomes of its draws, in order
change_strategy(w, a, ty, se, up, flip, fire1, fire2) ==
    LET u == [type |-> ty, sentiment |-> se, raised |-> FALSE] IN
    IF spread_raises(w, markets[a][0]) THEN [u EXCEPT !.raised = TRUE]
    ELSE IF ty = "Chartist" /\ \E i \in Indices(a) : spread_raises(w, markets[a][i])
      THEN [u EXCEPT !.raised = TRUE]
    ELSE
      LET se1 == IF ty = "Chartist" THEN change_sentiment(se, flip) ELSE se IN
      IF price(w, markets[a][0], up) = 0 THEN [u EXCEPT !.sentiment = se1, !.raised = TRUE]
      ELSE IF ty = "Chartist"
        THEN [u EXCEPT !.sentiment = se1, !.type = IF fire1 THEN "Fundamentalist" ELSE ty]
      ELSE
        LET u1 == IF fire1 /\ se1 = "Pessimistic"
                  THEN [u EXCEPT !.type = "Chartist", !.sentiment = "Optimistic"]
                  ELSE u
        IN  IF fire2 /\ u1.sentiment = "Optimistic"
            THEN [u1 EXCEPT !.type = "Chartist", !.sentiment = "Pessimistic"]
            ELSE u1

(***************************************************************************)
(* StopTrading.                                                            *)
(***************************************************************************)
\* the scheduled events: iteration and target (2 is no exchange)
Events == [it : {1, 2}, exchange_id : {0, 1, 2}]
Iterations == {1, 2}

\* Event.call: true (skip) unless the iteration is the event's
Event_call(ev, it) == it /= ev.it

\* StopTrading.call without the test of the iteration
StopTrading_call_always(ts, ev, it) ==
    [i \in Exchanges |-> IF i = ev.exchange_id THEN "True" ELSE "False"]

\* StopTrading.call that stops its exchange and leaves the flags of the others
StopTrading_call_noreset(ts, ev, it) ==
    IF Event_call(ev, it) THEN ts
    ELSE [i \in Exchanges |-> IF i = ev.exchange_id THEN "True" ELSE ts[i]]

StopTrading_call(ts, ev, it) ==
    IF Event_call(ev, it) THEN ts
    ELSE [i \in Exchanges |-> IF i = ev.exchange_id THEN "True" ELSE "False"]

(***************************************************************************)
(* make_event_df.                                                          *)
(***************************************************************************)
Labels == {"stable", "panic", "disaster"}
\* a float of the export: np.nan, or a number
NaN == [nan |-> TRUE, value |-> 0]
Number(v) == [nan |-> FALSE, value |-> v]

\* s[i:] of a Python list s: a negative i counts from the end of the list
slice_from(s, i) ==
    IF i >= 0 THEN SubSeq(s, Min(i, Len(s)) + 1, Len(s))
    ELSE SubSeq(s, Max(Len(s) + i, 0) + 1, Len(s))

\* the loop over the labels: c is the run of labels without a panic or disaster, C the
\* number of labels read
RECURSIVE recovery_scan(_, _, _, _, _)
recovery_scan(ss, threshold, is_recovered, c, C) ==
    IF ss = <<>> \/ is_recovered THEN [is_recovered |-> is_recovered, c |-> c, C |-> C]
    ELSE LET c1 == IF Head(ss) \in {"panic", "disaster"} THEN 0 ELSE c + 1
         IN  recovery_scan(Tail(ss), threshold, c1 >= threshold, c1, C + 1)

\* the recovery columns of the row of one event
event_row(states, config, event) ==
    LET state_it == (event.it \div config.size) - 1
        r == recovery_scan(slice_from(states, state_it), config.stability_threshold, FALSE, 0, 0)
        shock_st_right == (state_it + 1) * config.size + config.window
    IN  [event |-> event,
         is_recovered |-> r.is_recovered,
         time_to_recover |-> IF ~r.is_recovered THEN NaN
                             ELSE IF r.C = r.c THEN Number(0)
                             ELSE Number((shock_st_right - event.it) + r.C * config.size)]

\* sorted(events, key=lambda item: item['it'])
sorted_events(events) == SortSeq(events, LAMBDA x, y : x.it < y.it)

\* make_event_df: a row for each event, in the order of their iterations
make_event_df(inf, config) ==
    LET events == sorted_events(config.events)
    IN  [k \in 1..Len(events) |-> event_row(inf.states, config, events[k])]

(***************************************************************************)
(* The state machine.                                                      *)
(***************************************************************************)
Snapshot == [order_book |-> order_book, cash |-> cash, assets |-> assets, orders |-> orders,
             trading_stopped |-> trading_stopped, dividend_book |-> dividend_book,
             type |-> type, sentiment |-> sentiment]

NoEvent == [it |-> 0, exchange_id |-> NoMarket]

\* no labels, and a configuration without events
NoInfo == [states |-> <<>>]
NoConfig == [size |-> 1, window |-> 1, stability_threshold |-> 1, events |-> <<>>]

Op(op, a, side, q, p, market, index, id, ret, w) ==
    [op |-> op, trader |-> a, side |-> side, qty |-> q, price |-> p, market |-> market,
     index |-> index, order_id |-> id, ret |-> ret, raised |-> w.raised, trades |-> w.trades,
     sent |-> w.sent, event |-> NoEvent, it |-> 0, config |-> NoConfig]

NoOp == [op |-> "init", trader |-> "None", side |-> "None", qty |-> 0, price |-> 0,
         market |-> NoMarket, index |-> NoMarket, order_id |-> 0, ret |-> NoReturn,
         raised |-> FALSE, trades |-> <<>>, sent |-> <<>>, event |-> NoEvent, it |-> 0,
         config |-> NoConfig]

Commit(w) ==
    /\ order_book' = w.order_book
    /\ cash' = w.cash
    /\ assets' = w.assets
    /\ orders' = w.orders
    /\ next_id' = w.next_id
    /\ nops' = nops + 1
    /\ pre' = Snapshot
    /\ UNCHANGED <<dividend_book, type, sentiment, held, info, event_df>>

NumInit(e) == 2 * (volume[e] \div 2)

EmptyBook == [bid |-> <<>>, ask |-> <<>>]

InitBooks(ps0, qs0, ps1, qs1) ==
    /\ order_book = [e \in Exchanges |->
          IF e = 0 THEN fill_book(0, ps0, qs0, 1, EmptyBook)
          ELSE fill_book(1, ps1, qs1, 1 + NumInit(0), EmptyBook)]
    /\ trading_stopped = [e \in Exchanges |-> "unset"]
    /\ cash = [a \in Traders |-> 0]
    /\ orders = [a \in Traders |-> <<>>]
    /\ next_id = 1 + NumInit(0) + NumInit(1)
    /\ nops = 0
    /\ last = NoOp

\* the rest of the construction: the exchanges' dividend books from their first dividends d0
\* and the draws fs, the MarketMaker's assets as, the Universalist's type ty and sentiment se,
\* and the labels inf the run has given its windows
InitRun(d0, fs, as, ty, se, inf) ==
    /\ dividend_book = [e \in Exchanges |-> fill_dividends(d0[e], fs[e]).book]
    /\ assets = [a \in Traders |-> IF a = "M" THEN as ELSE [i \in Indices(a) |-> 0]]
    /\ type = ty
    /\ sentiment = se
    /\ held = IF ty = "Chartist" THEN se ELSE "None"
    /\ info = inf
    /\ event_df = <<>>
    /\ pre = Snapshot

\* a run that has labelled no window
InitRest(d0, fs, as, ty, se) == InitRun(d0, fs, as, ty, se, NoInfo)

\* dividends starting at the centre price and staying there, no inventory
InitPlain ==
    InitRest([e \in Exchanges |-> 2 * price0[e]], [e \in Exchanges |-> [i \in 1..DividendBookLen |-> 2]],
             [i \in {0, 1} |-> 0], "Chartist", "Optimistic")

\* sorted(prices1 + prices2)
sorted(ps) == SortSeq(ps, LAMBDA x, y : x < y)

\* the order book _fill_book makes of its draws: volume // 2 prices around price - std,
\* volume // 2 around price + std, and volume quantities
fill_order_book(e, prices1, prices2, quantities, id) ==
    fill_book(e, sorted(prices1 \o prices2), quantities, id, EmptyBook)

\* ExchangeAgent(volume=...) of the first exchange, in the runs that start from books of
\* every size
Volumes == 0..5
\* draws of normalvariate(price - std, std) and of normalvariate(price + std, std), rounded
Draws1 == {0, 1, 2}
Draws2 == {1, 3}
\* draws of randint(1, 5) for a book of n orders: all 1, or 1, 2, 3, 4, 5 in turn
QtyDraws(n) == {[k \in 1..n |-> 1], [k \in 1..n |-> ((k - 1) % 5) + 1]}

\* the first exchange constructed with volume n, the second as in the other runs; the
\* construction is recorded as the last operation
InitBook ==
    \E n \in Volumes :
      \E prices1 \in [1..(n \div 2) -> Draws1], prices2 \in [1..(n \div 2) -> Draws2],
         quantities \in QtyDraws(n) :
        /\ order_book = [e \in Exchanges |->
              IF e = 0 THEN fill_order_book(0, prices1, prices2, quantities, 1)
              ELSE fill_book(1, <<1, 2>>, <<1, 1>>, 1 + 2 * (n \div 2), EmptyBook)]
        /\ trading_stopped = [e \in Exchanges |-> "unset"]
        /\ cash = [a \in Traders |-> 0]
        /\ orders = [a \in Traders |-> <<>>]
        /\ next_id = 3 + 2 * (n \div 2)
        /\ nops = 0
        /\ last = [NoOp EXCEPT !.market = 0, !.price = price0[0], !.qty = n]
        /\ InitPlain

Init ==
    \E ps0 \in InitDraws[0], qs0 \in [1..volume[0] -> InitQtys[0]],
       ps1 \in InitDraws[1], qs1 \in [1..volume[1] -> InitQtys[1]] :
         InitBooks(ps0, qs0, ps1, qs1) /\ InitPlain

BuyLimit(a, q, p, i) ==
    /\ nops < MaxOps
    /\ LET w == _buy_limit(World, a, q, p, i)
       IN  /\ Commit(w)
           /\ last' = Op("limit", a, "bid", q, p, i, i, next_id, NoReturn, w)
    /\ UNCHANGED trading_stopped

SellLimit(a, q, p, i) ==
    /\ nops < MaxOps
    /\ LET w == _sell_limit(World, a, q, p, i)
       IN  /\ Commit(w)
           /\ last' = Op("limit", a, "ask", q, p, i, i, next_id, NoReturn, w)
    /\ UNCHANGED trading_stopped

BuyMarket(a, q, m) ==
    /\ nops < MaxOps
    /\ LET f == _buy_market(World, a, q, m)
       IN  /\ Commit(f.w)
           /\ last' = Op("market", a, "bid", q, 0, m, f.index, next_id, f.ret, f.w)
    /\ UNCHANGED trading_stopped

SellMarket(a, q, m) ==
    /\ nops < MaxOps
    /\ LET f == _sell_market(World, a, q, m)
       IN  /\ Commit(f.w)
           /\ last' = Op("market", a, "ask", q, 0, m, f.index, next_id, f.ret, f.w)
    /\ UNCHANGED trading_stopped

CancelOrder(a, k) ==
    /\ nops < MaxOps
    /\ k \in 1..Len(orders[a])
    /\ LET h == orders[a][k]
           w == _cancel_order(World, a, h)
       IN  /\ Commit(w)
           /\ last' = Op("cancel", a, h.order_type, 0, 0, h.market_id, h.market_id,
                         h.order_id, NoReturn, w)
    /\ UNCHANGED trading_stopped

MarketMakerCall(a) ==
    /\ nops < MaxOps
    /\ LET w == MarketMaker_call(World, a)
       IN  /\ Commit(w)
           /\ last' = Op("call", a, "None", 0, 0, NoMarket, NoMarket, next_id, NoReturn, w)
    /\ UNCHANGED trading_stopped

StopTrading(ev, it) ==
    /\ nops < MaxOps
    /\ trading_stopped' = StopTrading_call(trading_stopped, ev, it)
    /\ nops' = nops + 1
    /\ pre' = Snapshot
    /\ last' = [NoOp EXCEPT !.op = "stop", !.event = ev, !.it = it]
    /\ UNCHANGED <<order_book, cash, assets, orders, next_id, dividend_book, type, sentiment, held,
                   info, event_df>>

\* one call of generate_dividend on exchange e, its draw being f
GenerateDividend(e, f) ==
    /\ nops < MaxOps
    /\ (dividend_book[e][Len(dividend_book[e])] * f) % 2 = 0
    /\ (dividend_book[e][Len(dividend_book[e])] * f) \div 2 <= MaxDividend
    /\ dividend_book' = [dividend_book EXCEPT ![e] = generate_dividend(@, f)]
    /\ nops' = nops + 1
    /\ pre' = Snapshot
    /\ last' = [NoOp EXCEPT !.op = "dividend", !.market = e, !.qty = f]
    /\ UNCHANGED <<order_book, trading_stopped, cash, assets, orders, next_id, type, sentiment, held,
                   info, event_df>>

\* Fundamentalist.call of a; the order or cancellation it made is recorded as the side
FundamentalistCall(a, up, trade, high, delta) ==
    /\ nops < MaxOps
    /\ LET f == Fundamentalist_call(World, a, dividend_book[markets[a][0]], up, trade, high, delta)
       IN  /\ Commit(f.w)
           /\ last' = Op("fundamentalist", a, f.act, f.qty, fundamental(dividend_book[markets[a][0]]),
                         NoMarket, 0, next_id, NoReturn, f.w)
    /\ UNCHANGED trading_stopped

\* Universalist.call of a: Chartist.call or Fundamentalist.call, by its type; d is the draws
Universalist_call(a, d) ==
    /\ LET w == IF type = "Chartist"
                THEN Chartist_call(World, a, sentiment, d.up, d.kind, d.q, d.inside, d.x)
                ELSE Fundamentalist_call(World, a, dividend_book[markets[a][0]],
                                         d.up, d.trade, d.high, d.x).w
       IN  /\ Commit(w)
           /\ last' = Op("universalist", a, type, d.q, 0, NoMarket, 0, next_id, NoReturn, w)
    /\ UNCHANGED trading_stopped

UniversalistCall(a, d) == nops < MaxOps /\ Universalist_call(a, d)

\* Universalist.change_strategy of a
Universalist_change_strategy(a, up, flip, fire1, fire2) ==
    /\ LET u == change_strategy(World, a, type, sentiment, up, flip, fire1, fire2)
       IN  /\ type' = u.type
           /\ sentiment' = u.sentiment
           /\ held' = IF type = "Chartist" \/ u.type = "Chartist" THEN u.sentiment ELSE held
           /\ last' = [NoOp EXCEPT !.op = "change_strategy", !.trader = a, !.raised = u.raised]
    /\ nops' = nops + 1
    /\ pre' = Snapshot
    /\ UNCHANGED <<order_book, trading_stopped, cash, assets, orders, next_id, dividend_book,
                   info, event_df>>

ChangeStrategy(a, up, flip, fire1, fire2) ==
    nops < MaxOps /\ Universalist_change_strategy(a, up, flip, fire1, fire2)

\* equity() of a: nothing changes, the value returned is recorded
Equity(a, up) ==
    /\ nops < MaxOps
    /\ LET r == equity(World, a, up)
       IN  last' = [NoOp EXCEPT !.op = "equity", !.trader = a, !.ret = r.ret, !.raised = r.raised]
    /\ nops' = nops + 1
    /\ pre' = Snapshot
    /\ UNCHANGED <<order_book, trading_stopped, cash, assets, orders, next_id, dividend_book,
                   type, sentiment, held, info, event_df>>

\* the dividend step of a tick of the Simulator: generate_dividend on every exchange that
\* is not stopped, fs being the draws
Dividends(fs) ==
    /\ nops < MaxOps
    /\ \A e \in Exchanges :
          /\ (dividend_book[e][Len(dividend_book[e])] * fs[e]) % 2 = 0
          /\ (dividend_book[e][Len(dividend_book[e])] * fs[e]) \div 2 <= MaxDividend
    /\ dividend_book' = [e \in Exchanges |->
          IF trading_stopped[e] = "True" THEN dividend_book[e]
          ELSE generate_dividend(dividend_book[e], fs[e])]
    /\ nops' = nops + 1
    /\ pre' = Snapshot
    /\ last' = [NoOp EXCEPT !.op = "dividends"]
    /\ UNCHANGED <<order_book, trading_stopped, cash, assets, orders, next_id, type, sentiment, held,
                   info, event_df>>

\* make_event_df(info, config) of the run
MakeEventDf(config) ==
    /\ nops < MaxOps
    /\ event_df' = make_event_df(info, config)
    /\ nops' = nops + 1
    /\ pre' = Snapshot
    /\ last' = [NoOp EXCEPT !.op = "make_event_df", !.config = config]
    /\ UNCHANGED <<order_book, trading_stopped, cash, assets, orders, next_id, dividend_book,
                   type, sentiment, held, info>>

\* Random.call and Fundamentalist.call: limit orders go to the trader's first market, market
\* orders are sent without a market index, any of the trader's orders may be cancelled
Next ==
    \/ \E q \in 1..MaxQty, p \in Prices : BuyLimit("T", q, p, FirstMarket)
    \/ \E q \in 1..MaxQty, p \in Prices : SellLimit("T", q, p, FirstMarket)
    \/ \E q \in Qtys : BuyMarket("T", q, NoMarket)
    \/ \E q \in Qtys : SellMarket("T", q, NoMarket)
    \/ \E k \in 1..Len(orders["T"]) : CancelOrder("T", k)
    \/ MarketMakerCall("M")

Spec == Init /\ [][Next]_vars

\* the run of one scenario: a single book per exchange, and the events
InitHalt ==
    /\ InitBooks(<<1, 3>>, [k \in 1..volume[0] |-> 1], <<1, 2>>, [k \in 1..volume[1] |-> 1])
    /\ InitPlain

NextHalt ==
    \/ Next
    \/ \E ev \in Events, it \in Iterations : StopTrading(ev, it)
    \/ \E fs \in [Exchanges -> DivFactors] : Dividends(fs)

SpecHalt == InitHalt /\ [][NextHalt]_vars

\* the first orders sent to a new book: market orders of the trader
NextBook ==
    \/ \E q \in 1..MaxQty : BuyMarket("T", q, NoMarket)
    \/ \E q \in 1..MaxQty : SellMarket("T", q, NoMarket)

SpecBook == InitBook /\ [][NextBook]_vars

\* the dividend books of the configurations followed, and the calls of generate_dividend
InitDiv ==
    /\ InitBooks(<<1, 3>>, [k \in 1..volume[0] |-> 1], <<1, 2>>, [k \in 1..volume[1] |-> 1])
    /\ \E d0 \in [Exchanges -> InitDivs], fs \in [Exchanges -> DivDraws] :
          InitRest(d0, fs, [i \in {0, 1} |-> 0], "Chartist", "Optimistic")

NextDiv == \E e \in Exchanges, f \in DivFactors : GenerateDividend(e, f)

SpecDiv == InitDiv /\ [][NextDiv]_vars

\* books of the first exchange with a bid and an ask, or with one side empty
AgentDraws == {<<0, 2>>, <<1, 2>>, <<1, 3>>, <<3, 3>>}
\* books of the second exchange: two bids, or a bid of 1 and an ask of 4, the bid priced 1 or 0
AgentDraws1 == {<<1, 1>>, <<1, 3>>, <<0, 3>>}
AgentQtys1 == <<1, 4>>
\* Trader(assets=...) of the MarketMaker
MakerAssets == {<<0, 0>>, <<2, 0>>, <<-2, 1>>, <<0, -6>>}

\* the calls of the agents and the dividends of the ticks: the MarketMaker starts with an
\* inventory, the Fundamentalist sees the dividends of its first market
InitAgents ==
    \E ps0 \in AgentDraws, ps1 \in AgentDraws1, as \in MakerAssets, fs0 \in DivDraws :
        /\ InitBooks(ps0, [k \in 1..volume[0] |-> 1], ps1, AgentQtys1)
        /\ InitRest([e \in Exchanges |-> 2 * price0[e]],
                    [e \in Exchanges |-> IF e = 0 THEN fs0 ELSE [i \in 1..DividendBookLen |-> 2]],
                    [i \in {0, 1} |-> as[i + 1]], "Chartist", "Optimistic")

NextAgents ==
    \/ \E up \in BOOLEAN, trade \in BOOLEAN, high \in BOOLEAN, delta \in Deltas :
          FundamentalistCall("T", up, trade, high, delta)
    \/ MarketMakerCall("M")
    \/ \E a \in Traders, up \in BOOLEAN : Equity(a, up)
    \/ \E e \in Exchanges, f \in DivFactors : GenerateDividend(e, f)

SpecAgents == InitAgents /\ [][NextAgents]_vars

\* the draws of one Universalist.call
CallDraws == [up : BOOLEAN, kind : {"market", "limit", "cancel", "none"}, q : 1..MaxQty,
              inside : BOOLEAN, x : Deltas, trade : BOOLEAN, high : BOOLEAN]

\* a Universalist of either type and sentiment, its calls and its changes of strategy
InitUniv ==
    \E ps0 \in {<<0, 2>>, <<1, 3>>}, ty \in Types, se \in Sentiments :
        /\ InitBooks(ps0, [k \in 1..volume[0] |-> 1], <<1, 3>>, AgentQtys1)
        /\ InitRest([e \in Exchanges |-> 2 * price0[e]],
                    [e \in Exchanges |-> [i \in 1..DividendBookLen |-> 2]],
                    [i \in {0, 1} |-> 0], ty, se)

NextUniv ==
    \/ \E d \in CallDraws : UniversalistCall("T", d)
    \/ \E up \in BOOLEAN, flip \in BOOLEAN, fire1 \in BOOLEAN, fire2 \in BOOLEAN :
          ChangeStrategy("T", up, flip, fire1, fire2)

SpecUniv == InitUniv /\ [][NextUniv]_vars

\* calls of a run long enough for a Universalist to send two orders as a Chartist, become
\* a Fundamentalist and call again
MaxCalls == MaxOps + 2
\* the draws of the calls of that run: limit orders of 1 at either end of the spread, or a
\* cancellation
CancelDraws == [up : {FALSE}, kind : {"limit", "cancel"}, q : {1}, inside : {TRUE}, x : Deltas,
                trade : BOOLEAN, high : {FALSE}]

\* an optimistic Chartist before books of a bid of 1 and an ask of 4
InitCancel ==
    /\ InitBooks(<<1, 3>>, [k \in 1..volume[0] |-> IF k = 2 THEN 4 ELSE 1], <<1, 3>>, AgentQtys1)
    /\ InitRest([e \in Exchanges |-> 2 * price0[e]],
                [e \in Exchanges |-> [i \in 1..DividendBookLen |-> 2]],
                [i \in {0, 1} |-> 0], "Chartist", "Optimistic")

NextCancel ==
    \/ \E d \in CancelDraws : nops < MaxCalls /\ Universalist_call("T", d)
    \/ \E fire1 \in BOOLEAN :
          nops < MaxCalls /\ Universalist_change_strategy("T", FALSE, FALSE, fire1, FALSE)

SpecCancel == InitCancel /\ [][NextCancel]_vars

\* the labels of a run of up to three windows
InfoStates == UNION {[1..n -> Labels] : n \in 0..3}
\* config['size'], config['window'], config['stability_threshold'] and config['events']:
\* one or two StopTrading events for the first exchange
Configs == [size : {1, 2, 3}, window : {1}, stability_threshold : {1, 2},
            events : UNION {[1..n -> [it : Iterations, exchange_id : {0}]] : n \in 1..2}]

\* a finished run whose windows are labelled, and the export of its events
InitExport ==
    /\ InitBooks(<<1, 3>>, [k \in 1..volume[0] |-> 1], <<1, 2>>, [k \in 1..volume[1] |-> 1])
    /\ \E ss \in InfoStates :
          InitRun([e \in Exchanges |-> 2 * price0[e]],
                  [e \in Exchanges |-> [i \in 1..DividendBookLen |-> 2]],
                  [i \in {0, 1} |-> 0], "Chartist", "Optimistic", [states |-> ss])

NextExport == \E config \in Configs : MakeEventDf(config)

SpecExport == InitExport /\ [][NextExport]_vars

(***************************************************************************)
(* Properties.                                                             *)
(***************************************************************************)
Opposite(side) == IF side = "bid" THEN "ask" ELSE "bid"

RECURSIVE Vol(_)
Vol(lst) == IF lst = <<>> THEN 0 ELSE Head(lst).qty + Vol(Tail(lst))

Ids(lst) == {lst[k].order_id : k \in 1..Len(lst)}

Resting(book, a) ==
    UNION {{book[e][s][k].order_id : k \in {j \in 1..Len(book[e][s]) : book[e][s][j].trader = a}} :
           e \in Exchanges, s \in Sides}

\* what the fills of a run of trades add to the cash of a
RECURSIVE TradeCash(_, _)
TradeCash(a, ts) ==
    IF ts = <<>> THEN 0
    ELSE LET t == Head(ts)
         IN  (IF t.seller = a THEN t.qty * t.price * (10 - transaction_cost[t.exchange]) ELSE 0)
             - (IF t.buyer = a THEN t.qty * t.price * (10 + transaction_cost[t.exchange]) ELSE 0)
             + TradeCash(a, Tail(ts))

\* what they add to the assets a holds at position i
RECURSIVE TradeAssets(_, _, _)
TradeAssets(a, i, ts) ==
    IF ts = <<>> THEN 0
    ELSE LET t == Head(ts)
             here == t.exchange = markets[a][i]
         IN  (IF t.buyer = a /\ here THEN t.qty ELSE 0)
             - (IF t.seller = a /\ here THEN t.qty ELSE 0)
             + TradeAssets(a, i, Tail(ts))

RECURSIVE TradedAt(_, _, _)
TradedAt(e, side, ts) ==
    IF ts = <<>> THEN 0
    ELSE (IF Head(ts).exchange = e /\ Head(ts).side = side THEN Head(ts).qty ELSE 0)
         + TradedAt(e, side, Tail(ts))

WithoutId(lst, id) == SelectSeq(lst, LAMBDA r : r.order_id /= id)

\* the quantity that left the resting orders of a side is the quantity traded against it
FillsLeaveBook ==
    \A e \in Exchanges, s \in Sides :
        Vol(pre.order_book[e][s]) - Vol(WithoutId(order_book[e][s], last.order_id))
            = TradedAt(e, s, last.trades)

\* C1: every fill of t at the resting price p takes t*p*(1+tc) from the buyer's cash and adds t
\* to its assets at the venue, adds t*p*(1-tc) to the seller's cash and takes t from its assets;
\* a side without a trader is not settled, and nothing else moves cash or assets.
C1_Settlement ==
    /\ \A a \in Traders :
         /\ cash[a] = pre.cash[a] + TradeCash(a, last.trades)
         /\ \A i \in Indices(a) : assets[a][i] = pre.assets[a][i] + TradeAssets(a, i, last.trades)
    /\ last.op \in {"limit", "market"} => FillsLeaveBook

C1_Witness ==
    /\ last.op = "market"
    /\ \E k \in 1..Len(last.trades) :
         /\ last.trades[k].buyer \in Traders
         /\ last.trades[k].seller \in Traders
         /\ last.trades[k].buyer /= last.trades[k].seller
         /\ last.trades[k].price > 0
         /\ transaction_cost[last.trades[k].exchange] > 0
    /\ \E k \in 1..Len(last.trades) : last.trades[k].seller = "None"

\* C2: whenever both sides of a book hold orders, the best bid is below the best ask.
C2_BestBidBelowBestAsk ==
    \A e \in Exchanges :
        (OrderList_bool(order_book[e]["bid"]) /\ OrderList_bool(order_book[e]["ask"]))
            => OrderList_first(order_book[e]["bid"]).price < OrderList_first(order_book[e]["ask"]).price

C2_Witness ==
    /\ last.op = "limit"
    /\ last.trades /= <<>>
    /\ LET e == markets[last.trader][last.index]
       IN  /\ last.order_id \in Ids(order_book[e][last.side])
           /\ OrderList_bool(order_book[e]["bid"])
           /\ OrderList_bool(order_book[e]["ask"])

Sorted(lst, side) ==
    \A k \in 1..(Len(lst) - 1) :
        IF side = "bid" THEN lst[k].price >= lst[k + 1].price ELSE lst[k].price <= lst[k + 1].price

\* orders are numbered as they are created, and each is put in the book as it is created
Fifo(lst) ==
    \A k \in 1..(Len(lst) - 1) :
        lst[k].price = lst[k + 1].price => lst[k].order_id < lst[k + 1].order_id

\* C3: bids are sorted by non-increasing and asks by non-decreasing price, and of two orders
\* of one price on one side the one put in earlier is nearer the head.
C3_PriceTimePriority ==
    \A e \in Exchanges, s \in Sides : Sorted(order_book[e][s], s) /\ Fifo(order_book[e][s])

\* C4: after any operation that returned, the orders in a trader's list are exactly its
\* orders resting in the books.
C4_OrdersAreResting ==
    \A a \in Traders : last.raised = FALSE => Ids(orders[a]) = Resting(order_book, a)

Compat(side, p, r) == IF side = "bid" THEN p >= r.price ELSE p <= r.price

\* the fills of an order of side, price p and quantity q walking lst from its head
RECURSIVE Walk(_, _, _, _, _)
Walk(lst, q, side, p, limited) ==
    IF q = 0 \/ lst = <<>> THEN <<>>
    ELSE IF limited /\ ~Compat(side, p, Head(lst)) THEN <<>>
    ELSE LET t == Min(q, Head(lst).qty)
         IN  <<[resting |-> Head(lst).order_id, qty |-> t, price |-> Head(lst).price]>>
             \o Walk(Tail(lst), q - t, side, p, limited)

\* and what the walk leaves of lst
RECURSIVE Rest(_, _, _, _, _)
Rest(lst, q, side, p, limited) ==
    IF q = 0 \/ lst = <<>> THEN lst
    ELSE IF limited /\ ~Compat(side, p, Head(lst)) THEN lst
    ELSE IF Head(lst).qty > q THEN <<[Head(lst) EXCEPT !.qty = @ - q]>> \o Tail(lst)
    ELSE Rest(Tail(lst), q - Head(lst).qty, side, p, limited)

Fills(ts) == [k \in 1..Len(ts) |->
                 [resting |-> ts[k].resting, qty |-> ts[k].qty, price |-> ts[k].price]]

RECURSIVE Filled(_)
Filled(ts) == IF ts = <<>> THEN 0 ELSE Head(ts).qty + Filled(Tail(ts))

\* C5: a marketable limit order fills the opposite side from its head while the prices are
\* compatible, each fill at the resting price for the smaller quantity; a partly filled
\* resting order stays at the head; what is left of the order rests at its limit price.
C5_MarketableLimit ==
    (last.op = "limit" /\ ~last.raised) =>
        LET e    == markets[last.trader][last.index]
            own  == last.side
            opp  == Opposite(own)
            lst  == pre.order_book[e][opp]
            left == last.qty - Filled(last.trades)
        IN  Compat(own, last.price, OrderList_first(lst)) =>
              /\ Fills(last.trades) = Walk(lst, last.qty, own, last.price, TRUE)
              /\ order_book[e][opp] = Rest(lst, last.qty, own, last.price, TRUE)
              /\ left > 0 =>
                    \E k \in 1..Len(order_book[e][own]) :
                        order_book[e][own][k] =
                            Order(last.order_id, last.price, left, own, last.index, last.trader)
              /\ left = 0 => last.order_id \notin Ids(order_book[e][own])

\* C6: a market order of quantity q sent to a side of total quantity V fills min(q, V),
\* walking the side from the best price in price-time order at each resting order's price,
\* and returns q - min(q, V).
C6_MarketOrderWalk ==
    (last.op = "market" /\ ~last.raised) =>
        IF last.index = NoMarket
        THEN /\ last.ret = last.qty
             /\ last.trades = <<>>
             /\ \A i \in Indices(last.trader) :
                   pre.order_book[markets[last.trader][i]][Opposite(last.side)] = <<>>
        ELSE LET e   == markets[last.trader][last.index]
                 opp == Opposite(last.side)
                 lst == pre.order_book[e][opp]
                 V   == Vol(lst)
             IN  /\ Filled(last.trades) = Min(last.qty, V)
                 /\ last.ret = last.qty - Min(last.qty, V)
                 /\ Fills(last.trades) = Walk(lst, last.qty, last.side, 0, FALSE)
                 /\ order_book[e][opp] = Rest(lst, last.qty, last.side, 0, FALSE)
                 /\ cash[last.trader] = pre.cash[last.trader] + TradeCash(last.trader, last.trades)

C6_Witness ==
    /\ last.op = "market"
    /\ ~last.raised
    /\ last.side = "bid"
    /\ Len(last.trades) = 2
    /\ last.trades[1].price < last.trades[2].price
    /\ last.ret = 0

\* C7: no order resting in a book has a quantity of 0 or less.
C7_RestingQtyPositive ==
    \A e \in Exchanges, s \in Sides :
        \A k \in 1..Len(order_book[e][s]) : order_book[e][s][k].qty > 0

\* a MarketMaker call that returned with a quote of quantity 0 dropped and another resting
C7_Witness ==
    /\ last.op = "call"
    /\ ~last.raised
    /\ Ids(orders["M"]) \ Resting(order_book, "M") /= {}
    /\ Resting(order_book, "M") /= {}

InsideSpread(book, e, p) ==
    /\ OrderList_bool(book[e]["bid"])
    /\ OrderList_bool(book[e]["ask"])
    /\ OrderList_first(book[e]["bid"]).price < p
    /\ p < OrderList_first(book[e]["ask"]).price

\* C8: limit_order(o) with o priced strictly inside the spread, followed at once by
\* cancel_order(o), leaves the book as it was before the insertion and moves no cash or assets.
C8_RoundTrip ==
    [][ (/\ last.op = "limit"
         /\ ~last.raised
         /\ InsideSpread(pre.order_book, markets[last.trader][last.index], last.price)
         /\ last'.op = "cancel"
         /\ last'.order_id = last.order_id)
        => (/\ order_book' = pre.order_book
            /\ cash' = pre.cash
            /\ assets' = pre.assets) ]_vars

\* a run of exactly an insertion inside the spread and the cancellation of that order
C8_Witness ==
    /\ nops = 2
    /\ last.op = "cancel"
    /\ last.order_id = next_id - 1
    /\ LET e == markets[last.trader][last.index]
       IN  /\ InsideSpread(order_book, e, OrderList_first(pre.order_book[e][last.side]).price)
           /\ OrderList_first(pre.order_book[e][last.side]).order_id = last.order_id
           /\ last.order_id \notin Ids(order_book[e][last.side])
    /\ \A a \in Traders : cash[a] = 0 /\ \A i \in Indices(a) : assets[a][i] = 0

\* C9: a market order of quantity 0 changes no book and not the trader's cash, assets or orders.
C9_ZeroMarketOrder ==
    (last.op = "market" /\ last.qty = 0) =>
        /\ order_book = pre.order_book
        /\ cash = pre.cash
        /\ assets = pre.assets
        /\ orders = pre.orders

C9_Witness ==
    /\ last.op = "market"
    /\ last.qty = 0
    /\ ~last.raised
    /\ last.index /= NoMarket
    /\ last.ret = 0
    /\ Vol(order_book[markets[last.trader][last.index]][Opposite(last.side)]) > 0

\* C10: every exchange starts with trading_stopped false; a StopTrading event that fires
\* for exchange i leaves i stopped and every other exchange trading; nothing else changes
\* the flag of an exchange.
C10_TradingState ==
    /\ nops = 0 => \A e \in Exchanges : trading_stopped[e] = "False"
    /\ (last.op = "stop" /\ last.it = last.event.it) =>
          \A e \in Exchanges :
              trading_stopped[e] = IF e = last.event.exchange_id THEN "True" ELSE "False"
    /\ (last.op /= "stop" /\ nops > 0) => trading_stopped = pre.trading_stopped

\* C12: the dividend book of every exchange has exactly 100 entries, none below 0, after
\* construction and after every generate_dividend.
C12_DividendBook ==
    \A e \in Exchanges :
        /\ Len(dividend_book[e]) = DividendBookLen
        /\ \A k \in 1..Len(dividend_book[e]) : dividend_book[e][k] >= 0

\* two calls on an exchange: the book has moved by two places and ends with the new dividends;
\* the other exchange was built from a negative first dividend
C12_Witness ==
    /\ nops = 2
    /\ last.op = "dividend"
    /\ \E e \in Exchanges :
          /\ pre.dividend_book[e] /= dividend_book[e]
          /\ \A k \in 1..(DividendBookLen - 1) : dividend_book[e][k] = pre.dividend_book[e][k + 1]
          /\ dividend_book[e][DividendBookLen] > dividend_book[e][DividendBookLen - 1]
          /\ dividend_book[e][DividendBookLen - 1] > dividend_book[e][DividendBookLen - 2]
          /\ \E x \in Exchanges \ {e} : \A k \in 1..DividendBookLen : dividend_book[x][k] = 0

\* C11: while an exchange is stopped nothing changes it: no order is inserted in its book
\* or filled from it, nothing is settled at it and its dividend book does not move.
C11_HaltIsolates ==
    \A e \in Exchanges :
        pre.trading_stopped[e] = "True" =>
            /\ order_book[e] = pre.order_book[e]
            /\ dividend_book[e] = pre.dividend_book[e]
            /\ \A k \in 1..Len(last.trades) : last.trades[k].exchange /= e

\* the positions of a's venues whose side holds orders in book
Open(book, a, side) == {i \in Indices(a) : OrderList_bool(book[markets[a][i]][side])}

\* C13: a market order sent without a venue index goes to the venue whose side has the lowest
\* last ask (the highest last bid for a sale) among the trader's venues with orders on that
\* side, whichever of the venues are empty, and returns its quantity untraded only when
\* none of them has orders.
C13_VenueChoice ==
    (last.op = "market" /\ last.market = NoMarket) =>
        LET a    == last.trader
            side == Opposite(last.side)
            open == Open(pre.order_book, a, side)
            far(i) == OrderList_last(pre.order_book[markets[a][i]][side]).price
        IN  /\ ~last.raised
            /\ IF open = {}
               THEN last.index = NoMarket /\ last.ret = last.qty /\ last.trades = <<>>
               ELSE /\ last.index \in open
                    /\ \A j \in open :
                          IF side = "ask" THEN far(last.index) <= far(j)
                          ELSE far(last.index) >= far(j)
                    /\ \A k \in 1..Len(last.trades) :
                          last.trades[k].exchange = markets[a][last.index]

\* C14: limit_order on an exchange one side of whose book is empty returns without raising,
\* leaves both sides as they were and settles nothing.
C14_LimitOnEmptySide ==
    (last.op = "limit" /\ spread_raises(pre, markets[last.trader][last.index])) =>
        /\ ~last.raised
        /\ order_book = pre.order_book
        /\ last.trades = <<>>
        /\ cash = pre.cash
        /\ assets = pre.assets

\* C15: a call() of an agent one of whose venues has an empty bid or ask side returns
\* without raising, and leaves the book of that venue and the agent's assets at it unchanged.
C15_CallOnEmptyBook ==
    (last.op \in {"call", "fundamentalist"}) =>
        \A i \in Indices(last.trader) :
            spread_raises(pre, markets[last.trader][i]) =>
                /\ ~last.raised
                /\ order_book[markets[last.trader][i]] = pre.order_book[markets[last.trader][i]]
                /\ assets[last.trader][i] = pre.assets[last.trader][i]

\* the worth of a's assets, a venue without a price counting for nothing
RECURSIVE Worth(_, _, _)
Worth(a, is, up) ==
    IF is = {} THEN 0
    ELSE LET i == CHOOSE j \in is : TRUE
             e == markets[a][i]
             mid == IF spread_raises(pre, e) THEN 0 ELSE price(pre, e, up)
         IN  pre.assets[a][i] * mid * 10 + Worth(a, is \ {i}, up)

\* C16: equity() returns the cash plus the assets at each venue times the mid-price of the
\* venue, a venue with an empty side counting as price 0, and does not raise.
C16_Equity ==
    last.op = "equity" =>
        /\ ~last.raised
        /\ \E up \in BOOLEAN :
              last.ret = pre.cash[last.trader] + Worth(last.trader, Indices(last.trader), up)

\* the orders of a resting on a side of an exchange
Own(book, a, e, side) == SelectSeq(book[e][side], LAMBDA r : r.trader = a)

\* C18: after MarketMaker.call the agent's resting orders are all orders of this call, at
\* most one bid and one ask on each venue.
C18_QuotesReplaced ==
    last.op = "call" =>
        /\ \A id \in Resting(order_book, last.trader) : id >= last.order_id
        /\ \A i \in Indices(last.trader), side \in Sides :
              Len(Own(order_book, last.trader, markets[last.trader][i], side)) <= 1

\* a second call: the quotes of the first were resting and are gone, new ones rest
C18_Witness ==
    /\ last.op = "call"
    /\ ~last.raised
    /\ Resting(pre.order_book, last.trader) /= {}
    /\ Resting(order_book, last.trader) /= {}
    /\ Resting(order_book, last.trader) \cap Resting(pre.order_book, last.trader) = {}

\* the book of a venue once the orders of a are cancelled
Others(book, a, e) == [side \in Sides |-> SelectSeq(book[e][side], LAMBDA r : r.trader /= a)]

\* the two orders expected on venue i, from the inventory and the spread the call
\* finds; prices are in tenths and go to the nearest tenth as every order's price does
Quotes(a, i) ==
    LET bk    == Others(pre.order_book, a, markets[a][i])
        bid   == OrderList_first(bk["bid"]).price
        ask   == OrderList_first(bk["ask"]).price
        upper == softlimits[i]
        lower == -softlimits[i]
        held_i == pre.assets[a][i]
        \* offset = min(1, (ask - bid) * held_i / lower), as a number of tenths times -lower
        off   == Min(10 * (-lower), (ask - bid) * (-held_i))
        buy   == Max(0, (upper - 1 - held_i) \div 2)
        sell  == Max(0, (held_i - 1 - lower) \div 2)
    IN  <<[order_type |-> "bid", qty |-> buy, price |-> RoundHalfEven(bid * (-lower) + off, -lower),
           market_id |-> i],
          [order_type |-> "ask", qty |-> sell, price |-> RoundHalfEven(ask * (-lower) - off, -lower),
           market_id |-> i]>>

Sent(os) == [k \in 1..Len(os) |-> [order_type |-> os[k].order_type, qty |-> os[k].qty,
                                    price |-> os[k].price, market_id |-> os[k].market_id]]

\* C19: on each venue MarketMaker.call sends a buy limit of max(0, floor((upper - 1 - assets)/2))
\* at bid + offset and a sell limit of max(0, floor((assets - 1 - lower)/2)) at ask - offset,
\* with offset = min(1, (ask - bid) * assets / lower), all from the inventory held before
\* either order is sent.
C19_Quotes ==
    (last.op = "call" /\ ~last.raised) =>
        Sent(last.sent) = Quotes(last.trader, 0) \o Quotes(last.trader, 1)

\* a call with an inventory on both venues: on the first the offset moves the prices off the
\* best prices, on the second it is capped at 1
C19_Witness ==
    /\ last.op = "call"
    /\ ~last.raised
    /\ Len(last.sent) = 4
    /\ pre.assets[last.trader][1] * (-10) > 10 * softlimits[1]
    /\ last.sent[3].qty > 0
    /\ last.sent[3].price = OrderList_first(pre.order_book[markets[last.trader][1]]["bid"]).price + 10
    /\ last.trades /= <<>>

\* C20: a call of a Fundamentalist whose fundamental price is at or above the best ask times
\* (1 + t_cost) and whose order size is at least 1 places a buy order, a market buy or a buy
\* limit: it does not place a sell order and does not only cancel.
C20_FundamentalistBuys ==
    (/\ last.op = "fundamentalist"
     /\ ~last.raised
     /\ last.qty >= 1
     /\ 10 * last.price >= spread(pre, markets[last.trader][0]).ask
                              * (10 + transaction_cost[markets[last.trader][0]]))
        => last.side \in {"buy_market", "buy_limit"}

\* C17: a Universalist that is a Chartist becomes a Fundamentalist only in change_strategy,
\* and one that changes from Fundamentalist back to Chartist has, after the change, the
\* sentiment it had when it was last a Chartist.
C17_SentimentKept ==
    [][ /\ (type = "Chartist" /\ type' = "Fundamentalist") => last'.op = "change_strategy"
        /\ (type = "Fundamentalist" /\ type' = "Chartist" /\ held \in Sentiments)
              => sentiment' = held ]_vars

\* C21: StopTrading.call(t) with t other than the iteration of the event changes the
\* trading_stopped flag of no exchange; the flags change only in the call with t = it.
C21_SkipsOtherIterations ==
    /\ (last.op = "stop" /\ last.it /= last.event.it) => trading_stopped = pre.trading_stopped
    /\ trading_stopped /= pre.trading_stopped => (last.op = "stop" /\ last.it = last.event.it)

\* an event for the second exchange called at another iteration while the first is stopped
C21_Witness ==
    /\ last.op = "stop"
    /\ last.it /= last.event.it
    /\ last.event.exchange_id = 1
    /\ pre.trading_stopped[0] = "True"
    /\ trading_stopped[0] = "True"

\* the exchanges that are stopped
Halted(ts) == {e \in Exchanges : ts[e] = "True"}

\* C26: after any sequence of StopTrading events at most one exchange is stopped, and the
\* stopped exchanges are those of the event that fired last: its exchange when there is one
\* of that index, none otherwise; an event that fires twice leaves what it left the first time.
C26_OneHalted ==
    [][ /\ Cardinality(Halted(trading_stopped')) <= 1
        /\ (last'.op = "stop" /\ last'.it = last'.event.it)
              => Halted(trading_stopped') = {last'.event.exchange_id} \cap Exchanges
        /\ ~(last'.op = "stop" /\ last'.it = last'.event.it)
              => Halted(trading_stopped') = Halted(trading_stopped)
        /\ (last'.op = "stop" /\ last'.it = last'.event.it /\ last.op = "stop"
               /\ last.it = last.event.it /\ last'.event = last.event)
              => trading_stopped' = trading_stopped ]_vars

\* an event for an exchange that does not exist fires while the first exchange is stopped
C26_Witness ==
    /\ last.op = "stop"
    /\ last.it = last.event.it
    /\ last.event.exchange_id \notin Exchanges
    /\ Halted(pre.trading_stopped) = {0}
    /\ Halted(trading_stopped) = {}

\* C22: each generate_dividend moves the queue by one place, the entry at index k after the
\* call being the entry at index k + 1 before it for every k in 0..98, so that the dividend
\* seen at index 2 of an access window is the current dividend two calls later.
C22_DividendShift ==
    [][ last'.op = "dividend" =>
          LET e == last'.market
          IN  /\ \A k \in 1..(DividendBookLen - 1) : dividend_book'[e][k] = dividend_book[e][k + 1]
              /\ dividend(dividend_book'[e], NoAccess) = dividend(dividend_book[e], 2)[2]
              /\ (last.op = "dividend" /\ last.market = e)
                    => dividend(dividend_book'[e], NoAccess) = dividend(pre.dividend_book[e], 3)[3] ]_vars

\* two calls on an exchange whose first three dividends differed: the third is now current
C22_Witness ==
    /\ nops = 2
    /\ last.op = "dividend"
    /\ LET e == last.market
       IN  /\ pre.dividend_book[e][1] /= pre.dividend_book[e][2]
           /\ dividend_book[e][1] /= pre.dividend_book[e][1]
           /\ dividend_book[e][1] /= dividend_book[e][2]
           /\ dividend_book[e][2] /= dividend_book[e][3]
           /\ dividend_book[e][DividendBookLen] /= pre.dividend_book[e][DividendBookLen]

\* C24: just after an exchange is constructed with centre price P every bid has a price of
\* at most P and every ask a price above P, the bids are in descending and the asks in
\* ascending order of price, and every order has an integer quantity in 1..5 and no trader.
C24_InitialBook ==
    last.op = "init" =>
        \A e \in Exchanges :
            /\ \A k \in 1..Len(order_book[e]["bid"]) : order_book[e]["bid"][k].price <= price0[e]
            /\ \A k \in 1..Len(order_book[e]["ask"]) : order_book[e]["ask"][k].price > price0[e]
            /\ \A side \in Sides :
                  /\ Sorted(order_book[e][side], side)
                  /\ \A k \in 1..Len(order_book[e][side]) :
                        /\ order_book[e][side][k].qty \in 1..5
                        /\ order_book[e][side][k].trader = "None"
                        /\ order_book[e][side][k].order_type = side

\* a new book of two bids of different prices, the higher first, and two asks, the lower first
C24_Witness ==
    /\ last.op = "init"
    /\ Len(order_book[0]["bid"]) = 2
    /\ Len(order_book[0]["ask"]) = 2
    /\ order_book[0]["bid"][1].price > order_book[0]["bid"][2].price
    /\ order_book[0]["ask"][1].price < order_book[0]["ask"][2].price
    /\ order_book[0]["bid"][1].price = price0[0]
    /\ order_book[0]["ask"][2].qty = 4

\* C25: an exchange constructed with volume = n has exactly n orders in its first book, bids
\* and asks together, for every n >= 0, the odd ones included.
C25_VolumeOrders ==
    (last.op = "init" /\ last.market \in Exchanges) =>
        Len(order_book[last.market]["bid"]) + Len(order_book[last.market]["ask"]) = last.qty

\* the orders of a that rested before the last operation and rest no more
Gone(a) == Resting(pre.order_book, a) \ Resting(order_book, a)

\* C28: a market order never rests: after _buy_market or _sell_market returns, whatever is
\* left unfilled, the order is on neither side of any book, and the trader's list of orders
\* is the one before the call without the trader's own resting orders that the call filled.
C28_MarketNeverRests ==
    (last.op = "market" /\ ~last.raised) =>
        /\ \A e \in Exchanges, side \in Sides : last.order_id \notin Ids(order_book[e][side])
        /\ last.order_id \notin Ids(orders[last.trader])
        /\ orders[last.trader] =
              SelectSeq(pre.orders[last.trader], LAMBDA h : h.order_id \notin Gone(last.trader))
        /\ \A id \in Gone(last.trader) : \E k \in 1..Len(last.trades) : last.trades[k].resting = id

\* a market order that took one of the trader's own resting orders whole, and another order
C28_Witness ==
    /\ last.op = "market"
    /\ ~last.raised
    /\ Len(last.trades) = 2
    /\ Gone(last.trader) /= {}
    /\ Len(orders[last.trader]) < Len(pre.orders[last.trader])

\* the assets all traders hold at exchange e, in the record of assets as
RECURSIVE HeldAt(_, _, _)
HeldAt(as, e, ts) ==
    IF ts = {} THEN 0
    ELSE LET a == CHOOSE x \in ts : TRUE
             RECURSIVE at(_)
             at(is) == IF is = {} THEN 0
                       ELSE LET i == CHOOSE j \in is : TRUE
                            IN  (IF markets[a][i] = e THEN as[a][i] ELSE 0) + at(is \ {i})
         IN  at(Indices(a)) + HeldAt(as, e, ts \ {a})

RECURSIVE TotalCash(_, _)
TotalCash(c, ts) ==
    IF ts = {} THEN 0
    ELSE LET a == CHOOSE x \in ts : TRUE IN c[a] + TotalCash(c, ts \ {a})

\* what traders bought from book-initialisation asks of e less what they sold to its bids
RECURSIVE NetFromInit(_, _)
NetFromInit(e, ts) ==
    IF ts = <<>> THEN 0
    ELSE LET t == Head(ts)
         IN  (IF t.exchange = e /\ t.buyer \in Traders /\ t.seller = "None" THEN t.qty ELSE 0)
             - (IF t.exchange = e /\ t.seller \in Traders /\ t.buyer = "None" THEN t.qty ELSE 0)
             + NetFromInit(e, Tail(ts))

\* the transaction costs of both sides of a run of trades: 2 * t * p * tc each
RECURSIVE Costs(_)
Costs(ts) ==
    IF ts = <<>> THEN 0
    ELSE 2 * Head(ts).qty * Head(ts).price * transaction_cost[Head(ts).exchange] + Costs(Tail(ts))

\* C29: after any limit, market or cancel operation the assets all traders hold at a venue
\* are those before it plus what they bought from book-initialisation asks less what they
\* sold to book-initialisation bids; a trade between two traders, or of a trader with itself,
\* leaves that sum as it is and lowers the traders' total cash by exactly 2 * t * p * tc.
C29_AssetsConserved ==
    /\ \A e \in Exchanges :
          HeldAt(assets, e, Traders) = HeldAt(pre.assets, e, Traders) + NetFromInit(e, last.trades)
    /\ (\A k \in 1..Len(last.trades) :
            last.trades[k].buyer \in Traders /\ last.trades[k].seller \in Traders)
          => /\ \A e \in Exchanges : HeldAt(assets, e, Traders) = HeldAt(pre.assets, e, Traders)
             /\ TotalCash(cash, Traders) = TotalCash(pre.cash, Traders) - Costs(last.trades)

\* a trader's market order filled by its own resting order alone, at a venue with a cost
C29_Witness ==
    /\ last.op \in {"limit", "market"}
    /\ Len(last.trades) = 1
    /\ last.trades[1].buyer = last.trades[1].seller
    /\ last.trades[1].buyer \in Traders
    /\ last.trades[1].price > 0
    /\ transaction_cost[last.trades[1].exchange] > 0
    /\ TotalCash(cash, Traders) < TotalCash(pre.cash, Traders)

WithinLimits(as, i) == as[i] >= -softlimits[i] /\ as[i] <= softlimits[i]

\* C27: the inventory of a MarketMaker at a venue that is within [-softlimit, +softlimit]
\* stays within it, whatever the other traders do against its quotes: the quotes it has
\* resting, filled whole, would leave it within the limits too.
C27_InventoryWithinLimits ==
    \A i \in Indices("M") :
        WithinLimits(pre.assets["M"], i) =>
            /\ WithinLimits(assets["M"], i)
            /\ assets["M"][i] + Vol(Own(order_book, "M", markets["M"][i], "bid")) <= softlimits[i]
            /\ assets["M"][i] - Vol(Own(order_book, "M", markets["M"][i], "ask")) >= -softlimits[i]

\* another trader's market order fills a quote of the MarketMaker whole and a
\* book-initialisation order, and leaves the inventory within the limits
C27_Witness ==
    /\ last.op = "fundamentalist"
    /\ last.trader /= "M"
    /\ \A i \in Indices("M") : WithinLimits(pre.assets["M"], i)
    /\ \E i \in Indices("M") :
          /\ assets["M"][i] /= pre.assets["M"][i]
          /\ pre.assets["M"][i] /= 0
          /\ Own(pre.order_book, "M", markets["M"][i], "bid") /= <<>>
          /\ Own(order_book, "M", markets["M"][i], "bid") = <<>>
    /\ Len(last.trades) >= 2

Calm(l) == l \notin {"panic", "disaster"}

\* the places of ss at which a run of n labels without panic or disaster is complete
RunEnds(ss, n) == {j \in n..Len(ss) : \A i \in (j - n + 1)..j : Calm(ss[i])}

\* C30: for every event, make_event_df scans the labels from the window before the window
\* of the event (index it // size - 1) to the last window; is_recovered is true exactly when
\* the scan has stability_threshold labels in a row that are neither panic nor disaster;
\* time_to_recover is 0 exactly when no panic or disaster comes in the scan before that
\* run is complete, and NaN when there is no recovery.
C30_RecoveryScan ==
    last.op = "make_event_df" =>
        \A k \in 1..Len(event_df) :
            LET row   == event_df[k]
                n     == last.config.stability_threshold
                first == (row.event.it \div last.config.size) - 1
                scan  == SubSeq(info.states, Max(first, 0) + 1, Len(info.states))
                ends  == RunEnds(scan, n)
            IN  /\ row.is_recovered = (ends /= {})
                /\ (row.time_to_recover = Number(0)) =
                      (ends /= {} /\ \A j \in ends : (\A i \in ends : j <= i) =>
                                                      \A i \in 1..j : Calm(scan[i]))
                /\ (row.time_to_recover = NaN) = (ends = {})

\* a call of Fundamentalist.call that sent no order and took the first of the trader's orders
\* off its list: the cancel branch
CancelBranch ==
    /\ last.op \in {"universalist", "fundamentalist"}
    /\ last.op = "universalist" => last.side = "Fundamentalist"
    /\ ~last.raised
    /\ last.sent = <<>>
    /\ last.trades = <<>>
    /\ pre.orders[last.trader] /= <<>>
    /\ orders[last.trader] = Tail(pre.orders[last.trader])

\* C23: when a call of a Fundamentalist takes the cancel branch and the trader has an order
\* resting in a book, the order taken out of the book is the one placed first among the
\* trader's orders that still rest.
C23_CancelsOldestResting ==
    (CancelBranch /\ Resting(pre.order_book, last.trader) /= {}) =>
        \E id \in Resting(pre.order_book, last.trader) :
            /\ \A other \in Resting(pre.order_book, last.trader) : id <= other
            /\ Gone(last.trader) = {id}

====
